---------------------------- MODULE Spec2Model ----------------------------
(***************************************************************************)
(* Model of the portfolio backend (src/main.py): the lifespan of the       *)
(* MongoDB connection, the get_db dependency, the send_email helper and    *)
(* the two form handlers POST /send-resume and POST /contact.              *)
(*                                                                         *)
(* Each request runs in three steps: Dispatch (the framework resolves      *)
(* Depends(get_db) and validates the form), phase 1 (insert_one inside     *)
(* the first try block) and phase 2 (send_email inside the second try      *)
(* block, which yields the response).  The store and the mail server are   *)
(* the environment: what insert_one and the SMTP session raise is chosen   *)
(* nondeterministically at the step that calls them.                       *)
(***************************************************************************)
EXTENDS Integers, Sequences, FiniteSets, TLC

VARIABLES
    settings,          \* Settings(): EMAIL_ADDRESS, EMAIL_PASSWORD (MONGO_URI is not read after startup)
    files,             \* the paths that exist on the file system
    lifespanPc,        \* position of lifespan(): "pending", "yielded", "closed"; "disabled" when the host never runs it
    hasDb,             \* hasattr(app.state, 'db')
    mongo_client,      \* app.state.mongo_client: "unset", "open", "closed"
    pingFailed,        \* the startup ping raised (degraded handle)
    req,               \* per request: position, form fields, calls made so far, response
    resume_requests,   \* collection db["resume_requests"]
    contact_messages,  \* collection db["contact_messages"]
    now                \* datetime.datetime.now(), as a logical clock

vars == <<settings, files, lifespanPc, hasDb, mongo_client, pingFailed,
          req, resume_requests, contact_messages, now>>

-----------------------------------------------------------------------------
(* Bounds and input samples *)

MaxRequests == 2

Requests == 1..MaxRequests

None == "None"
NoExc == "none"

Names == {"Jane"}
Messages == {"Hello"}

\* Addresses as character sequences: a valid one, one without "@", one whose
\* domain has no dot.
Emails == { <<"j", "@", "x", ".", "c">>, <<"n", "o">>, <<"j", "@", "x">> }

AddressValues == {"", "me@gmail.com"}
PasswordValues == {"", "app-password"}

ResumePath == "assets/Midhunesh_G_Resume.pdf"
ResumeFilename == "Midhunesh_Resume.pdf"

-----------------------------------------------------------------------------
(* Python exceptions: the classes the two external calls raise and their   *)
(* base classes.                                                           *)

Parent == [ FileNotFoundError           |-> "OSError",
            TimeoutError                |-> "OSError",
            SMTPException               |-> "OSError",
            SMTPResponseException       |-> "SMTPException",
            SMTPAuthenticationError     |-> "SMTPResponseException",
            SMTPRecipientsRefused       |-> "SMTPException",
            OSError                     |-> "Exception",
            PyMongoError                |-> "Exception",
            ServerSelectionTimeoutError |-> "PyMongoError",
            Exception                   |-> "BaseException" ]

RECURSIVE IsInstance(_, _)
IsInstance(exc, cls) ==
    IF exc = cls THEN TRUE
    ELSE IF exc \in DOMAIN Parent THEN IsInstance(Parent[exc], cls)
    ELSE FALSE

\* What insert_one may raise, and what the SMTP_SSL session (connect, login,
\* send_message) may raise.
InsertExceptions == {"ServerSelectionTimeoutError"}
SmtpExceptions == {"SMTPAuthenticationError", "SMTPRecipientsRefused", "TimeoutError"}

\* The first except clause of a try statement that matches exc; clauses is a
\* sequence of [cls, status, detail].  No match: the exception propagates and
\* the framework answers 500.
Unhandled == [status |-> 500, detail |-> "Internal Server Error"]

RECURSIVE ExceptDispatch(_, _)
ExceptDispatch(clauses, exc) ==
    IF clauses = <<>> THEN Unhandled
    ELSE IF IsInstance(exc, Head(clauses).cls)
         THEN [status |-> Head(clauses).status, detail |-> Head(clauses).detail]
         ELSE ExceptDispatch(Tail(clauses), exc)

-----------------------------------------------------------------------------
(* Pure helpers *)

\* Python truthiness of a str-or-None value.
Truthy(x) == x # "" /\ x # None

\* The syntax check behind the EmailStr form field: exactly one "@", a
\* non-empty local part, and a domain with a dot strictly inside it.
IsValidEmail(e) ==
    LET ats == {i \in DOMAIN e : e[i] = "@"} IN
    /\ Cardinality(ats) = 1
    /\ LET at == CHOOSE i \in ats : TRUE IN
       /\ at > 1
       /\ \E k \in (at + 2)..(Len(e) - 1) : e[k] = "."
       /\ e[at + 1] # "."

\* get_db(): the handle, or HTTPException(503) when app.state has no db.
Unavailable == [status |-> 503, detail |-> "Database connection is not available."]

DbHandle == [status |-> 0, detail |-> "app.state.db"]

\* Variant: no hasattr check.
get_db_unchecked(has) == DbHandle

get_db(has) == IF ~has THEN Unavailable ELSE DbHandle

\* send_email(): the exception it raises, or NoExc.  smtp is what the SMTP_SSL
\* session raises for this call (NoExc: the message is sent).
send_email(st, attachment_path, attachment_filename, fs, smtp) ==
    IF ~(Truthy(st.EMAIL_ADDRESS) /\ Truthy(st.EMAIL_PASSWORD))
    THEN "SMTPException"
    ELSE IF Truthy(attachment_path) /\ Truthy(attachment_filename)
              /\ attachment_path \notin fs
         THEN "FileNotFoundError"
         ELSE smtp

\* The except clause of the first try block of both handlers: which
\* exceptions of insert_one are logged and dropped.
\* Variant: a clause that catches ValueError only.
Phase1CaughtNarrow(exc) == IsInstance(exc, "ValueError")

Phase1Caught(exc) == IsInstance(exc, "Exception")

\* The except clauses of the second try block, in source order.
ResumeOk == [status |-> 200, detail |-> "Resume sent successfully!"]
ContactOk == [status |-> 200, detail |-> "Thank you for your message! I'll get back to you soon."]

FileMissingDetail == "Server configuration error: The resume file could not be found."

\* Variants: the SMTPException clause missing; the generic clause first.
ResumeExceptClausesNoSmtp ==
    << [cls |-> "FileNotFoundError", status |-> 500, detail |-> FileMissingDetail],
       [cls |-> "Exception", status |-> 500,
        detail |-> "An unexpected server error occurred."] >>

ResumeExceptClausesGenericFirst ==
    << [cls |-> "Exception", status |-> 500,
        detail |-> "An unexpected server error occurred."],
       [cls |-> "FileNotFoundError", status |-> 500, detail |-> FileMissingDetail],
       [cls |-> "SMTPException", status |-> 502,
        detail |-> "There was an error with the email service. Please try again later."] >>

ResumeExceptClauses ==
    << [cls |-> "FileNotFoundError", status |-> 500, detail |-> FileMissingDetail],
       [cls |-> "SMTPException", status |-> 502,
        detail |-> "There was an error with the email service. Please try again later."],
       [cls |-> "Exception", status |-> 500,
        detail |-> "An unexpected server error occurred."] >>

ContactExceptClauses ==
    << [cls |-> "SMTPException", status |-> 502,
        detail |-> "There was an error with the email service."],
       [cls |-> "Exception", status |-> 500,
        detail |-> "An unexpected server error occurred."] >>

\* The framework's answer to a form that fails validation.
Unprocessable == [status |-> 422, detail |-> "value is not a valid email address"]

-----------------------------------------------------------------------------
(* State *)

Idle == [pc |-> "idle", endpoint |-> None, name |-> None, email |-> <<>>,
         message |-> None, trace |-> <<>>, status |-> 0, detail |-> None]

InFlight(r) == req[r].pc \in {"phase1", "phase2"}

Init ==
    /\ settings \in [EMAIL_ADDRESS : AddressValues, EMAIL_PASSWORD : PasswordValues]
    /\ files \in SUBSET {ResumePath}
    /\ lifespanPc \in {"pending", "disabled"}
    /\ hasDb = FALSE
    /\ mongo_client = "unset"
    /\ pingFailed = FALSE
    /\ req = [r \in Requests |-> Idle]
    /\ resume_requests = <<>>
    /\ contact_messages = <<>>
    /\ now = 0

-----------------------------------------------------------------------------
(* lifespan() *)

\* Variant: the exception of the ping is not caught.
lifespan_startup_ping_fatal ==
    /\ lifespanPc = "pending"
    /\ \E ping \in {NoExc, "ServerSelectionTimeoutError"} :
        /\ mongo_client' = "open"
        /\ hasDb' = TRUE
        /\ pingFailed' = (ping # NoExc)
        /\ lifespanPc' = IF ping = NoExc THEN "yielded" ELSE "failed"
    /\ UNCHANGED <<settings, files, req, resume_requests, contact_messages, now>>

\* Startup half: create the client, set app.state.db, ping; a failing ping
\* is logged and startup goes on to the yield.
lifespan_startup ==
    /\ lifespanPc = "pending"
    /\ \E ping \in {NoExc, "ServerSelectionTimeoutError"} :
        /\ mongo_client' = "open"
        /\ hasDb' = TRUE
        /\ pingFailed' = (ping # NoExc /\ IsInstance(ping, "Exception"))
        /\ lifespanPc' = IF ping = NoExc \/ IsInstance(ping, "Exception")
                         THEN "yielded" ELSE "failed"
    /\ UNCHANGED <<settings, files, req, resume_requests, contact_messages, now>>

\* Shutdown half: runs once the host has drained the requests in flight.
lifespan_shutdown ==
    /\ lifespanPc = "yielded"
    /\ \A r \in Requests : ~InFlight(r)
    /\ mongo_client' = "closed"
    /\ lifespanPc' = "closed"
    /\ UNCHANGED <<settings, files, hasDb, pingFailed, req, resume_requests,
                   contact_messages, now>>

-----------------------------------------------------------------------------
(* Request handling *)

\* The calls a request has made so far, in order (history of the request):
\* the operation, what it raised, and for an insert the timestamp put in
\* the document.
InsertEvent(exc, ts) == [op |-> "insert_one", exc |-> exc, ts |-> ts]
SendEvent(exc) == [op |-> "send_email", exc |-> exc, ts |-> -1]

Calls(r, op) == {i \in DOMAIN req[r].trace : req[r].trace[i].op = op}
InsertAttempts(r) == Cardinality(Calls(r, "insert_one"))
SendAttempts(r) == Cardinality(Calls(r, "send_email"))
InsertExc(r) == req[r].trace[CHOOSE i \in Calls(r, "insert_one") : TRUE].exc
SendExc(r) == req[r].trace[CHOOSE i \in Calls(r, "send_email") : TRUE].exc
Done(r) == req[r].pc = "done"

\* The field declarations of the two route signatures: name, email: EmailStr
\* (and message) as required form fields.
\* Variant: email declared as a plain str.
ValidateFormLax(ep, nm, em, msg) == TRUE

ValidateForm(ep, nm, em, msg) == IsValidEmail(em)

\* collection.insert_one(doc)
\* Variant: the write replaces the collection.
insert_one_replacing(coll, doc) == <<doc>>

insert_one(coll, doc) == Append(coll, doc)

\* The framework's part of both routes: resolve Depends(get_db), then
\* validate the form fields, then call the handler.  Requests are served
\* once lifespan() has yielded, or by a host that never runs it.
Dispatch(r) ==
    /\ req[r].pc = "idle"
    /\ \A q \in Requests : q < r => req[q].pc # "idle"
    /\ lifespanPc \in {"yielded", "disabled"}
    /\ \E ep \in {"/send-resume", "/contact"}, nm \in Names, em \in Emails,
          msg \in Messages :
        LET arrived == [req[r] EXCEPT !.endpoint = ep, !.name = nm, !.email = em,
                                      !.message = IF ep = "/contact" THEN msg ELSE None]
            db == get_db(hasDb)
        IN  req' = [req EXCEPT ![r] =
                IF db = Unavailable
                THEN [arrived EXCEPT !.pc = "done", !.status = Unavailable.status,
                                     !.detail = Unavailable.detail]
                ELSE IF ~ValidateForm(ep, nm, em, msg)
                THEN [arrived EXCEPT !.pc = "done", !.status = Unprocessable.status,
                                     !.detail = Unprocessable.detail]
                ELSE [arrived EXCEPT !.pc = "phase1"]]
    /\ UNCHANGED <<settings, files, lifespanPc, hasDb, mongo_client, pingFailed,
                   resume_requests, contact_messages, now>>

\* What follows the first try block: phase 2 when insert_one returned or its
\* exception was caught, the framework's 500 when it propagated.
\* Variant: a failed insert is tried once more.
AfterInsertRetry(r, exc) ==
    IF exc = NoExc \/ InsertAttempts(r) >= 1
    THEN req' = [req EXCEPT ![r].pc = "phase2",
                            ![r].trace = Append(@, InsertEvent(exc, now))]
    ELSE req' = [req EXCEPT ![r].trace = Append(@, InsertEvent(exc, now))]

AfterInsert(r, exc) ==
    IF exc = NoExc \/ Phase1Caught(exc)
    THEN req' = [req EXCEPT ![r].pc = "phase2",
                            ![r].trace = Append(@, InsertEvent(exc, now))]
    ELSE req' = [req EXCEPT ![r].pc = "done",
                            ![r].trace = Append(@, InsertEvent(exc, now)),
                            ![r].status = Unhandled.status,
                            ![r].detail = Unhandled.detail]

\* send_resume, first try block.
send_resume_phase1(r) ==
    /\ req[r].pc = "phase1"
    /\ req[r].endpoint = "/send-resume"
    /\ \E exc \in {NoExc} \cup InsertExceptions :
        /\ resume_requests' =
              IF exc = NoExc
              THEN insert_one(resume_requests,
                              [name |-> req[r].name, email |-> req[r].email,
                               timestamp |-> now])
              ELSE resume_requests
        /\ AfterInsert(r, exc)
    /\ now' = now + 1
    /\ UNCHANGED <<settings, files, lifespanPc, hasDb, mongo_client, pingFailed,
                   contact_messages>>

\* Variant of the second try block: a failed insert is reported to the client
\* when the send succeeds.
send_resume_phase2_insert_gated(r) ==
    /\ req[r].pc = "phase2"
    /\ req[r].endpoint = "/send-resume"
    /\ \E smtp \in {NoExc} \cup SmtpExceptions :
        LET exc == send_email(settings, ResumePath, ResumeFilename, files, smtp)
            resp == IF exc = NoExc
                    THEN (IF InsertExc(r) = NoExc THEN ResumeOk
                          ELSE ExceptDispatch(ResumeExceptClauses, InsertExc(r)))
                    ELSE ExceptDispatch(ResumeExceptClauses, exc)
        IN  req' = [req EXCEPT ![r].pc = "done",
                               ![r].trace = Append(@, SendEvent(exc)),
                               ![r].status = resp.status,
                               ![r].detail = resp.detail]
    /\ UNCHANGED <<settings, files, lifespanPc, hasDb, mongo_client, pingFailed,
                   resume_requests, contact_messages, now>>

\* send_resume, second try block.
send_resume_phase2(r) ==
    /\ req[r].pc = "phase2"
    /\ req[r].endpoint = "/send-resume"
    /\ \E smtp \in {NoExc} \cup SmtpExceptions :
        LET exc == send_email(settings, ResumePath, ResumeFilename, files, smtp)
            resp == IF exc = NoExc THEN ResumeOk
                    ELSE ExceptDispatch(ResumeExceptClauses, exc)
        IN  req' = [req EXCEPT ![r].pc = "done",
                               ![r].trace = Append(@, SendEvent(exc)),
                               ![r].status = resp.status,
                               ![r].detail = resp.detail]
    /\ UNCHANGED <<settings, files, lifespanPc, hasDb, mongo_client, pingFailed,
                   resume_requests, contact_messages, now>>

\* handle_contact_form, first try block.
handle_contact_form_phase1(r) ==
    /\ req[r].pc = "phase1"
    /\ req[r].endpoint = "/contact"
    /\ \E exc \in {NoExc} \cup InsertExceptions :
        /\ contact_messages' =
              IF exc = NoExc
              THEN insert_one(contact_messages,
                              [name |-> req[r].name, email |-> req[r].email,
                               message |-> req[r].message, timestamp |-> now])
              ELSE contact_messages
        /\ AfterInsert(r, exc)
    /\ now' = now + 1
    /\ UNCHANGED <<settings, files, lifespanPc, hasDb, mongo_client, pingFailed,
                   resume_requests>>

\* handle_contact_form, second try block.
handle_contact_form_phase2(r) ==
    /\ req[r].pc = "phase2"
    /\ req[r].endpoint = "/contact"
    /\ \E smtp \in {NoExc} \cup SmtpExceptions :
        LET exc == send_email(settings, None, None, files, smtp)
            resp == IF exc = NoExc THEN ContactOk
                    ELSE ExceptDispatch(ContactExceptClauses, exc)
        IN  req' = [req EXCEPT ![r].pc = "done",
                               ![r].trace = Append(@, SendEvent(exc)),
                               ![r].status = resp.status,
                               ![r].detail = resp.detail]
    /\ UNCHANGED <<settings, files, lifespanPc, hasDb, mongo_client, pingFailed,
                   resume_requests, contact_messages, now>>

Next ==
    \/ lifespan_startup
    \/ lifespan_shutdown
    \/ \E r \in Requests : Dispatch(r)
    \/ \E r \in Requests : send_resume_phase1(r)
    \/ \E r \in Requests : send_resume_phase2(r)
    \/ \E r \in Requests : handle_contact_form_phase1(r)
    \/ \E r \in Requests : handle_contact_form_phase2(r)

Spec == Init /\ [][Next]_vars

\* The host runs the startup half of lifespan() before it serves, and
\* insert_one returns or raises within its server selection timeout.
FairSpec ==
    /\ Spec
    /\ WF_vars(lifespan_startup)
    /\ \A r \in Requests : WF_vars(send_resume_phase1(r))
    /\ \A r \in Requests : WF_vars(handle_contact_form_phase1(r))

-----------------------------------------------------------------------------
(* Properties *)

Configured == Truthy(settings.EMAIL_ADDRESS) /\ Truthy(settings.EMAIL_PASSWORD)
Started(r) == req[r].pc # "idle"
Answered(r) == Done(r) /\ SendAttempts(r) = 1
OkOf(r) == IF req[r].endpoint = "/send-resume" THEN ResumeOk ELSE ContactOk
IsPrefix(a, b) == Len(a) <= Len(b) /\ SubSeq(b, 1, Len(a)) = a

\* C1: the response of a request that reached phase 1 is decided by the
\* outcome of its send_email call alone: two answered requests with the same
\* send outcome have the same status whatever insert_one did, and a request
\* whose insert raised and whose send succeeded gets 200 with the success
\* message of its endpoint.
C1_ResponseDependsOnlyOnSend ==
    /\ \A r1, r2 \in Requests :
          ( /\ Done(r1) /\ InsertAttempts(r1) = 1 /\ SendAttempts(r1) = 1
            /\ Done(r2) /\ InsertAttempts(r2) = 1 /\ SendAttempts(r2) = 1
            /\ SendExc(r1) = SendExc(r2) )
          => req[r1].status = req[r2].status
    /\ \A r \in Requests :
          ( /\ Done(r) /\ InsertAttempts(r) = 1 /\ InsertExc(r) # NoExc
            /\ SendAttempts(r) = 1 /\ SendExc(r) = NoExc )
          => req[r].status = 200 /\ req[r].detail = OkOf(r).detail

C1_Witness ==
    \E r1, r2 \in Requests :
        /\ Answered(r1) /\ Answered(r2)
        /\ req[r1].endpoint = "/send-resume" /\ req[r2].endpoint = "/send-resume"
        /\ InsertExc(r1) = NoExc /\ InsertExc(r2) # NoExc
        /\ SendExc(r1) = NoExc /\ SendExc(r2) = NoExc
        /\ req[r1].status = 200 /\ req[r2].status = 200

\* C2 (as claimed): when the mail address or the mail credential is empty at
\* call time, a request that calls send_email is answered 500.
C2_MissingCredentialsAnswered500 ==
    \A r \in Requests :
        (Answered(r) /\ ~Configured) => req[r].status = 500

\* C3 (as claimed): whenever the resume file is absent, an answered
\* POST /send-resume has status 500 and the configuration-error message,
\* under every other condition of the request.
C3_FileAbsentAlways500 ==
    \A r \in Requests :
        (Done(r) /\ req[r].endpoint = "/send-resume" /\ ResumePath \notin files)
        => req[r].status = 500 /\ req[r].detail = FileMissingDetail

\* C3 (amended): whenever the resume file is absent, a POST /send-resume that
\* obtained the storage handle, passed form validation and found the mail
\* address and credential both set is answered 500 with the
\* configuration-error message, whether its insert succeeded or raised.
C3_FileAbsent500WhenSendReachesFile ==
    \A r \in Requests :
        ( /\ Done(r) /\ req[r].endpoint = "/send-resume" /\ ResumePath \notin files
          /\ hasDb /\ IsValidEmail(req[r].email) /\ Configured )
        => /\ req[r].status = 500 /\ req[r].detail = FileMissingDetail
           /\ InsertAttempts(r) = 1

C3_Witness ==
    \E r1, r2 \in Requests :
        /\ ResumePath \notin files /\ Configured
        /\ Answered(r1) /\ Answered(r2)
        /\ req[r1].endpoint = "/send-resume" /\ req[r2].endpoint = "/send-resume"
        /\ InsertExc(r1) = NoExc /\ InsertExc(r2) # NoExc
        /\ req[r1].detail = FileMissingDetail /\ req[r2].detail = FileMissingDetail

\* C4: a request whose send_email call raised an SMTP error (SMTPException
\* or a subclass: login failure, refused recipients) is answered 502 on both
\* endpoints, whether its insert succeeded or raised.
C4_SmtpErrorAnswered502 ==
    \A r \in Requests :
        (Answered(r) /\ IsInstance(SendExc(r), "SMTPException"))
        => req[r].status = 502

C4_Witness ==
    \E r1, r2 \in Requests :
        /\ Answered(r1) /\ Answered(r2)
        /\ req[r1].endpoint = "/send-resume" /\ req[r2].endpoint = "/contact"
        /\ InsertExc(r1) = NoExc /\ InsertExc(r2) # NoExc
        /\ SendExc(r1) = "SMTPAuthenticationError"
        /\ SendExc(r2) = "SMTPRecipientsRefused"
        /\ req[r1].status = 502 /\ req[r2].status = 502

\* C5: no request ever makes more than one insert_one call or more than one
\* send_email call, and a request answered 200 has made exactly one of each.
C5_AtMostOneAttemptEach ==
    \A r \in Requests :
        /\ InsertAttempts(r) <= 1
        /\ SendAttempts(r) <= 1
        /\ (Done(r) /\ req[r].status = 200)
              => (InsertAttempts(r) = 1 /\ SendAttempts(r) = 1)

C5_Witness ==
    \E r1, r2 \in Requests :
        /\ Done(r1) /\ req[r1].status = 200
        /\ InsertAttempts(r1) = 1 /\ SendAttempts(r1) = 1
        /\ Done(r2) /\ req[r2].status = 502 /\ InsertExc(r2) # NoExc
        /\ InsertAttempts(r2) = 1 /\ SendAttempts(r2) = 1

\* C6: a request whose email field is not a syntactically valid address
\* never reaches a phase: it makes no insert_one and no send_email call and
\* its answer is not a success.
C6_InvalidEmailRejectedBeforePhases ==
    \A r \in Requests :
        (Started(r) /\ ~IsValidEmail(req[r].email))
        => /\ Done(r)
           /\ req[r].trace = <<>>
           /\ req[r].status # 200

C6_Witness ==
    \E r1, r2 \in Requests :
        /\ hasDb
        /\ Done(r1) /\ req[r1].endpoint = "/send-resume"
        /\ req[r1].email = <<"n", "o">> /\ req[r1].status = 422
        /\ Done(r2) /\ req[r2].endpoint = "/contact"
        /\ req[r2].email = <<"j", "@", "x">> /\ req[r2].status = 422

\* C7: with no storage handle on the application state, every request to
\* either endpoint is answered 503 without an insert_one or send_email call.
C7_NoHandleAnswered503 ==
    \A r \in Requests :
        (Started(r) /\ ~hasDb)
        => /\ Done(r)
           /\ req[r].status = 503
           /\ req[r].trace = <<>>

C7_Witness ==
    \E r1, r2 \in Requests :
        /\ ~hasDb
        /\ Done(r1) /\ req[r1].endpoint = "/send-resume" /\ req[r1].status = 503
        /\ IsValidEmail(req[r1].email)
        /\ Done(r2) /\ req[r2].endpoint = "/contact" /\ req[r2].status = 503

\* C8: a failing startup ping does not stop startup: lifespan() leaves its
\* startup half only by yielding, with the handle set, and it does leave it;
\* requests served after a failed ping are never answered 503, and are
\* answered 200 when their send succeeds even if their insert raised; the
\* shutdown half closes the client.
C8_DegradedStartupServes ==
    /\ [][ (lifespanPc = "pending" /\ lifespanPc' # "pending")
              => (lifespanPc' = "yielded" /\ hasDb' /\ mongo_client' = "open") ]_vars
    /\ [][ lifespanPc' = "closed" => mongo_client' = "closed" ]_vars
    /\ [](pingFailed =>
            /\ hasDb
            /\ lifespanPc \in {"yielded", "closed"}
            /\ \A r \in Requests :
                  /\ Started(r) => req[r].status # 503
                  /\ (Answered(r) /\ SendExc(r) = NoExc) => req[r].status = 200)
    /\ (lifespanPc = "pending") ~> (lifespanPc = "yielded")

C8_Witness ==
    \E r1, r2 \in Requests :
        /\ pingFailed /\ lifespanPc = "closed" /\ mongo_client = "closed"
        /\ Answered(r1) /\ InsertExc(r1) # NoExc /\ req[r1].status = 200
        /\ Answered(r2) /\ InsertExc(r2) = NoExc /\ req[r2].status = 200

\* C9: a request that obtained the handle and passed validation always goes
\* from phase 1 to phase 2: the step that ends phase 1 has made the one
\* insert_one call and no send_email call and enters phase 2, whether the
\* insert returned or raised; a send_email call is only made in phase 2,
\* after the insert_one call; and phase 1 is always left.
C9_Phase2AlwaysEntered ==
    /\ [][ \A r \in Requests :
             /\ (req[r].pc = "phase1" /\ req'[r] # req[r])
                   => /\ req'[r].pc = "phase2"
                      /\ Len(req'[r].trace) = 1
                      /\ req'[r].trace[1].op = "insert_one"
             /\ (Len(req'[r].trace) > Len(req[r].trace) /\ req[r].pc # "phase1")
                   => /\ req[r].pc = "phase2"
                      /\ Len(req[r].trace) = 1
                      /\ req[r].trace[1].op = "insert_one"
                      /\ req'[r].trace[2].op = "send_email" ]_vars
    /\ [](\A r \in Requests :
             (Done(r) /\ hasDb /\ IsValidEmail(req[r].email))
             => /\ Len(req[r].trace) = 2
                /\ req[r].trace[1].op = "insert_one"
                /\ req[r].trace[2].op = "send_email")
    /\ \A r \in Requests : (req[r].pc = "phase1") ~> (req[r].pc = "phase2")

C9_Witness ==
    \E r1, r2 \in Requests :
        /\ req[r1].pc = "phase2" /\ InsertExc(r1) # NoExc /\ SendAttempts(r1) = 0
        /\ Answered(r2) /\ InsertExc(r2) # NoExc
        /\ req[r2].trace[2].op = "send_email"

\* C10: the two collections only grow, every step keeps the existing
\* documents unchanged and in place, and the document written by a
\* request's insert is in its collection in every later state, whatever the
\* send outcome and the answer.
StoredDoc(r) ==
    LET ts == req[r].trace[1].ts IN
    IF req[r].endpoint = "/send-resume"
    THEN \E i \in DOMAIN resume_requests :
            resume_requests[i] = [name |-> req[r].name, email |-> req[r].email,
                                  timestamp |-> ts]
    ELSE \E i \in DOMAIN contact_messages :
            contact_messages[i] = [name |-> req[r].name, email |-> req[r].email,
                                   message |-> req[r].message, timestamp |-> ts]

C10_CollectionsAppendOnly ==
    /\ [][ /\ IsPrefix(resume_requests, resume_requests')
           /\ IsPrefix(contact_messages, contact_messages') ]_vars
    /\ [](\A r \in Requests :
             (InsertAttempts(r) = 1 /\ InsertExc(r) = NoExc) => StoredDoc(r))

C10_Witness ==
    \E r1, r2 \in Requests :
        /\ Answered(r1) /\ Answered(r2) /\ r1 # r2
        /\ InsertExc(r1) = NoExc /\ InsertExc(r2) = NoExc
        /\ req[r1].endpoint = "/send-resume" /\ req[r2].endpoint = "/send-resume"
        /\ req[r1].status = 502 /\ req[r2].status = 500
        /\ Len(resume_requests) = 2
        /\ StoredDoc(r1) /\ StoredDoc(r2)

=============================================================================
